---- MODULE Spec2Model ----
(***************************************************************************)
(* A model of src/game.js: the commit/reveal dice game driven by readline  *)
(* callbacks.  One action per callback invocation (a line read at a        *)
(* prompt), plus the start-up call game.startGame(process.argv[2]).        *)
(*                                                                         *)
(* Text is a sequence of one-character strings, so that split, trim,       *)
(* parseInt, parseFloat and Number() are computed and not assumed.         *)
(* A JavaScript value that may be absent (undefined, null, NaN) is <<>>;   *)
(* a present value v is <<v>>.                                             *)
(***************************************************************************)
EXTENDS Integers, Sequences, FiniteSets, TLC

\* ------------------------------------------------------------------ bounds

\* longest start-up argument (process.argv[2]) that is enumerated
MaxInputLen == 6
\* number of distinct 32-byte keys crypto.randomBytes(32) is drawn from
NumKeys == 2
\* crypto.randomBytes(4).readUInt32BE() is drawn from 0..MaxWord
MaxWord == 5

\* ------------------------------------------------- absent / present values

None == <<>>
Some(v) == <<v>>
NaN == None
null == None
undefined == None

\* ------------------------------------------------------- characters, text

DecChars == <<"0", "1", "2", "3", "4", "5", "6", "7", "8", "9">>
HexChars == DecChars \o <<"a", "b", "c", "d", "e", "f">>
UpperHexChars == DecChars \o <<"A", "B", "C", "D", "E", "F">>

Range(s) == {s[i] : i \in 1..Len(s)}

IsDecDigit(c) == c \in Range(DecChars)
IsHexDigit(c) == c \in Range(HexChars) \cup Range(UpperHexChars)

\* the numeric value of a digit character (decimal or hexadecimal)
DigitValue(c) ==
    IF c \in Range(HexChars)
    THEN (CHOOSE i \in 1..Len(HexChars) : HexChars[i] = c) - 1
    ELSE (CHOOSE i \in 1..Len(UpperHexChars) : UpperHexChars[i] = c) - 1

\* white space as String.prototype.trim and the number parsers see it
WhiteSpace == {" "}

RECURSIVE SkipWhite(_)
SkipWhite(s) ==
    IF s # <<>> /\ Head(s) \in WhiteSpace THEN SkipWhite(Tail(s)) ELSE s

RECURSIVE DropWhiteEnd(_)
DropWhiteEnd(s) ==
    IF s # <<>> /\ s[Len(s)] \in WhiteSpace
    THEN DropWhiteEnd(SubSeq(s, 1, Len(s) - 1))
    ELSE s

\* String.prototype.trim
trim(s) == DropWhiteEnd(SkipWhite(s))

\* String.prototype.includes, for a one-character needle
includes(s, c) == \E i \in 1..Len(s) : s[i] = c

\* String.prototype.split, for a one-character separator
RECURSIVE split(_, _)
split(s, sep) ==
    IF \A i \in 1..Len(s) : s[i] # sep
    THEN <<s>>
    ELSE LET k == CHOOSE i \in 1..Len(s) :
                      s[i] = sep /\ \A j \in 1..(i - 1) : s[j] # sep
         IN  <<SubSeq(s, 1, k - 1)>> \o split(SubSeq(s, k + 1, Len(s)), sep)

\* the longest prefix of s made of digits of the given kind
RECURSIVE DigitPrefix(_, _)
DigitPrefix(s, hex) ==
    IF s # <<>> /\ (IF hex THEN IsHexDigit(Head(s)) ELSE IsDecDigit(Head(s)))
    THEN <<Head(s)>> \o DigitPrefix(Tail(s), hex)
    ELSE <<>>

RECURSIVE DigitsValue(_, _)
DigitsValue(ds, radix) ==
    IF ds = <<>> THEN 0
    ELSE DigitsValue(SubSeq(ds, 1, Len(ds) - 1), radix) * radix
         + DigitValue(ds[Len(ds)])

Drop(s, n) == SubSeq(s, n + 1, Len(s))

\* Number.prototype.toString for an integer: decimal, no leading zeros
RECURSIVE NatToString(_)
NatToString(n) ==
    IF n < 10 THEN <<DecChars[n + 1]>>
    ELSE NatToString(n \div 10) \o <<DecChars[(n % 10) + 1]>>

toString(n) == IF n < 0 THEN <<"-">> \o NatToString(-n) ELSE NatToString(n)

\* global parseInt(string) with no radix: leading white space, a sign, an
\* optional 0x prefix, then the longest run of digits; NaN when there is none
parseInt(s) ==
    LET t == SkipWhite(s)
        neg == t # <<>> /\ Head(t) = "-"
        u == IF t # <<>> /\ Head(t) \in {"+", "-"} THEN Tail(t) ELSE t
        hex == Len(u) >= 2 /\ u[1] = "0" /\ u[2] \in {"x", "X"}
        body == IF hex THEN Drop(u, 2) ELSE u
        ds == DigitPrefix(body, hex)
        v == DigitsValue(ds, IF hex THEN 16 ELSE 10)
    IN  IF ds = <<>> THEN NaN ELSE Some(IF neg THEN -v ELSE v)

\* The exponent part at the head of r: e or E, a sign, digits; nothing is
\* read when the digits are missing.  used is the number of characters read.
ExponentOf(esigned, eneg, ep) ==
    IF ep = <<>>
    THEN [used |-> 0, value |-> 0]
    ELSE [used |-> 1 + (IF esigned THEN 1 ELSE 0) + Len(ep),
          value |-> IF eneg THEN -DigitsValue(ep, 10) ELSE DigitsValue(ep, 10)]

ExponentSigned(r) == Len(r) >= 2 /\ r[2] \in {"+", "-"}

ScanExponent(r) ==
    IF r # <<>> /\ Head(r) \in {"e", "E"}
    THEN ExponentOf(ExponentSigned(r),
                    ExponentSigned(r) /\ r[2] = "-",
                    DigitPrefix(Drop(r, IF ExponentSigned(r) THEN 2 ELSE 1),
                                FALSE))
    ELSE [used |-> 0, value |-> 0]

\* A decimal literal read as sign, integer digits ip, an optional dot with
\* fraction digits fp, and exponent ex.  Its value is (sign) digits *
\* 10^(-scale); used is the number of characters it takes; ok is false when
\* there is no digit at all.
Decimal(signLen, ip, dot, fp, ex) ==
    [ok |-> ip # <<>> \/ fp # <<>>,
     used |-> IF ip # <<>> \/ fp # <<>>
              THEN signLen + Len(ip) + (IF dot THEN 1 + Len(fp) ELSE 0)
                   + ex.used
              ELSE 0,
     digits |-> ip \o fp,
     scale |-> Len(fp) - ex.value]

ScanAfterDot(signLen, ip, fp, r) ==
    Decimal(signLen, ip, TRUE, fp, ScanExponent(Drop(r, Len(fp))))

ScanFraction(signLen, ip, r) ==
    IF r # <<>> /\ Head(r) = "."
    THEN ScanAfterDot(signLen, ip, DigitPrefix(Tail(r), FALSE), Tail(r))
    ELSE Decimal(signLen, ip, FALSE, <<>>, ScanExponent(r))

ScanMantissa(signLen, ip, a) == ScanFraction(signLen, ip, Drop(a, Len(ip)))

\* The longest prefix of u that is a decimal literal (StrDecimalLiteral
\* without Infinity): sign, digits, fraction, exponent
ScanDecimal(u) ==
    IF u # <<>> /\ Head(u) \in {"+", "-"}
    THEN ScanMantissa(1, DigitPrefix(Tail(u), FALSE), Tail(u))
    ELSE ScanMantissa(0, DigitPrefix(u, FALSE), u)

\* whether digits * 10^(-scale) is an integer: its last `scale` digits are zero
IsIntegerDecimal(d) ==
    /\ d.ok
    /\ \A i \in 1..Len(d.digits) :
           (i > Len(d.digits) - d.scale) => d.digits[i] = "0"

\* Number.isInteger(parseFloat(s)): parseFloat reads the longest decimal
\* literal after leading white space
IsIntegerParseFloat(s) == IsIntegerDecimal(ScanDecimal(SkipWhite(s)))

IsHexLiteral(t) ==
    /\ Len(t) >= 3 /\ t[1] = "0" /\ t[2] \in {"x", "X"}
    /\ \A i \in 3..Len(t) : IsHexDigit(t[i])

IsWholeDecimal(d, t) == d.ok /\ d.used = Len(t)

\* whether Number(t) is a number, for a trimmed text t: empty, a whole 0x
\* literal or a whole decimal literal
IsNumericText(t) ==
    \/ t = <<>>
    \/ IsHexLiteral(t)
    \/ IsWholeDecimal(ScanDecimal(t), t)

\* isNaN(s) for a string s, i.e. Number(s) is NaN
isNaNString(s) == ~IsNumericText(trim(s))

\* ------------------------------------------------------------- class Dice

\* the constructor's check: a non-empty array of integers
DiceValid(values) ==
    Len(values) >= 1 /\ \A i \in 1..Len(values) : values[i] \in Int

\* a roll that returns the drawn index instead of the face at that index
rollIndex(values, index) == index

\* Dice.roll: the face at index Math.floor(Math.random() * length), the
\* index being the draw (0-based)
roll(values, index) == values[index + 1]

RollIndexes(values) == 0..(Len(values) - 1)

\* ------------------------------------------------------- class FairRandom

\* crypto.randomBytes(32).toString('hex'): one of the keys
Keys == 1..NumKeys

\* crypto.randomBytes(4).readUInt32BE(): one of the words
Words == 0..MaxWord

generateRandomNumber(word, range) == word % range

\* HMAC-SHA3-256 as an injective function of key and message
generateHMAC(k, message) == [alg |-> "sha3-256", key |-> k, message |-> message]

\* ---------------------------------------------------------------- inputs

InputChars == {"1", ",", "x", " "}

\* the texts process.argv[2] is drawn from
Inputs == UNION {[1..n -> InputChars] : n \in 0..MaxInputLen}

\* process.argv[2]: absent, or a text
Arguments == {undefined} \cup {Some(s) : s \in Inputs}

\* the lines a user types at a prompt
Answers ==
    { <<"X">>, <<"x">>, <<"?">>,
      <<"0">>, <<"1">>, <<"2">>, <<"5">>, <<"6">>,
      <<"a", "b", "c">>, <<"1", ",", "2">>, <<"1", ".", "5">>,
      <<"1", "e", "1">> }

\* --------------------------------------------------------- console output

HmacLine(h, hi) == [type |-> "hmac", hmac |-> h, low |-> 0, high |-> hi]
RevealLine(v, k) == [type |-> "reveal", value |-> v, key |-> k]
FairLine(a, b, r) == [type |-> "fair", a |-> a, b |-> b, result |-> r]
RollLine(who, v) == [type |-> "roll", who |-> who, value |-> v]
OutcomeLine(w) == [type |-> "outcome", winner |-> w]
PromptLine(at, offers) == [type |-> "prompt", at |-> at, offers |-> offers]
ChosenLine(d) == [type |-> "chosen", dice |-> d]
OptionsLine(ds) == [type |-> "options", dice |-> ds]
TextLine(t) == [type |-> t]

\* ------------------------------------------------------------------ state

VARIABLES
    pc,             \* where the program waits: start, a prompt, closed, crashed
    input,          \* the text last handed to the program and where
    diceSet,        \* this.diceSet; <<>> while not built
    userDice,       \* this.userDice; <<>> while unassigned
    compDice,       \* this.compDice; <<>> while unassigned
    key,            \* this.key
    compChoice,     \* this.compChoice
    hmac,           \* this.hmac
    compRandom,     \* playRound's const compRandom of the live closure
    compRoll,       \* playRound's const compRoll of the live closure
    userCompRandom, \* playRound's const userCompRandom of the live closure
    userRoll,       \* the inner callback's const userRoll
    out,            \* the console lines printed by the last step, in order
    disclosed       \* the HMAC most recently printed

vars == <<pc, input, diceSet, userDice, compDice, key, compChoice, hmac,
          compRandom, compRoll, userCompRandom, userRoll, out, disclosed>>

game == <<diceSet, userDice, compDice>>
secrets == <<key, compChoice, hmac, disclosed>>
closure == <<compRandom, compRoll, userCompRandom, userRoll>>

Read(at, line) == [at |-> at, line |-> line]

Init ==
    /\ pc = "start"
    /\ input = Read("none", undefined)
    /\ diceSet = <<>>
    /\ userDice = <<>>
    /\ compDice = <<>>
    /\ key = undefined
    /\ compChoice = undefined
    /\ hmac = undefined
    /\ compRandom = undefined
    /\ compRoll = undefined
    /\ userCompRandom = undefined
    /\ userRoll = undefined
    /\ out = <<>>
    /\ disclosed = undefined

\* ------------------------------------------------------- class DiceGame

\* the three dice startGame builds
PresetDice == << <<2, 2, 4, 4, 9, 9>>, <<1, 1, 6, 6, 8, 8>>, <<3, 3, 5, 5, 7, 7>> >>

\* Number.isInteger of a parseInt result: an integer unless NaN
NumberIsInteger(v) == v # NaN

validateDiceInput(s) ==
    LET parts == split(s, ",")
        diceValues == [i \in 1..Len(parts) |-> parseInt(trim(parts[i]))]
    IN  /\ Len(diceValues) >= 3
        /\ \A i \in 1..Len(diceValues) :
               diceValues[i] # NaN /\ NumberIsInteger(diceValues[i])

\* commit with the HMAC taken over a zero-padded text of the number, which
\* is not the text disclosed at the reveal
commitPadded(k, v) ==
    [key |-> k, value |-> v, hmac |-> generateHMAC(k, <<"0">> \o toString(v))]

\* key, number and HMAC of the number's decimal text, as generated together
commit(k, v) == [key |-> k, value |-> v, hmac |-> generateHMAC(k, toString(v))]

\* IsExit without the lower-case x
IsExitUpperOnly(answer) == answer = <<"X">>

\* answer === 'X' || answer === 'x'
IsExit(answer) == answer \in {<<"X">>, <<"x">>}

\* a take that leaves the taken die in the array
spliceNone(pool, i) == pool

\* Array.prototype.splice(i, 1) for an index i of the array: what is left
spliceRest(pool, i) == SubSeq(pool, 1, i) \o SubSeq(pool, i + 2, Len(pool))

\* this.userDice = this.diceSet.splice(parseInt(answer), 1)[0]
userDiceOf(pool, i) == pool[i + 1]

\* compDiceOf reading this.diceSet[0] before the splice
compDiceBeforeSplice(pool, i) == pool[1]

\* this.compDice = this.diceSet[0], read after the splice
compDiceOf(pool, i) == spliceRest(pool, i)[1]

parseIntegerInput(s) ==
    IF \/ s = <<>>
       \/ includes(s, ",")
       \/ isNaNString(s)
       \/ ~IsIntegerParseFloat(s)
    THEN null
    ELSE LET parsedValue == parseInt(s)
         IN  IF parsedValue[1] < 0 \/ parsedValue[1] > 5
             THEN null
             ELSE parsedValue

\* parseInt and parseIntegerInput of each line a user may type
parsedInt == [a \in Answers |-> parseInt(a)]
parsedIntegerInput == [a \in Answers |-> parseIntegerInput(a)]

\* !isNaN(diceIndex) && this.diceSet[diceIndex]
isValidDiceChoice(answer, pool) ==
    LET diceIndex == parsedInt[answer]
    IN  diceIndex # NaN /\ diceIndex[1] >= 0 /\ diceIndex[1] < Len(pool)

\* the numbers and commitments FairRandom can produce for a range
Commitments(range) ==
    {commit(k, generateRandomNumber(word, range)) : k \in Keys, word \in Words}

\* a die that always shows its first face
RollsFirstFace(values) == {roll(values, 0)}

\* the faces Dice.roll can return
Rolls(values) == {roll(values, index) : index \in RollIndexes(values)}

\* (compRandom + userRandom) % 6
fairResult(a, b) == (a + b) % 6

\* the comparison with a tie going to the user
winnerOnTieUser(uRoll, cRoll) == IF uRoll >= cRoll THEN "user" ELSE "computer"

\* if (userRoll > compRoll) "You win" else "I win!"
winner(uRoll, cRoll) == IF uRoll > cRoll THEN "user" ELSE "computer"

\* what promptUser prints before it waits
promptUserLines ==
    <<TextLine("guess"), PromptLine("promptUser", {"0", "1", "X", "?"})>>

\* what chooseDice prints before it waits
chooseDiceLines(pool) ==
    <<OptionsLine(pool), PromptLine("chooseDice", {"index", "X", "?"})>>

\* what playRound prints before it waits
playRoundLines(h) ==
    <<TextLine("myRoll"), HmacLine(h, 5),
      PromptLine("playRound", {"0", "1", "2", "3", "4", "5", "X", "?"})>>

\* the number committed to in the round that waits at prompt p
PendingValue(p, cChoice, cRandom, uRandom) ==
    IF p = "promptUser" THEN cChoice
    ELSE IF p = "playRound" THEN cRandom
    ELSE uRandom

\* invalidInputLines with the number and key printed before the input is
\* validated
invalidInputLinesRevealing ==
    <<RevealLine(PendingValue(pc, compChoice, compRandom, userCompRandom)[1],
                 key[1]),
      TextLine("invalid")>>

\* what parseIntegerInput prints when it returns null
invalidInputLines == <<TextLine("invalid")>>

\* an exit branch that prints but leaves the question open
ExitIgnored ==
    /\ out' = <<TextLine("exiting")>>
    /\ pc' = pc
    /\ UNCHANGED <<game, secrets, closure>>

\* the exit branch of each callback: "Exiting game.", rl.close(), return
Exit ==
    /\ out' = <<TextLine("exiting")>>
    /\ pc' = "closed"
    /\ UNCHANGED <<game, secrets, closure>>

\* a playRound() that keeps the computer's roll of the exchange before
playRoundKeepingRoll(printed) ==
    \E c \in Commitments(6) :
            /\ key' = Some(c.key)
            /\ hmac' = Some(c.hmac)
            /\ disclosed' = Some(c.hmac)
            /\ compRandom' = Some(c.value)
            /\ compRoll' = compRoll
            /\ userCompRandom' = undefined
            /\ userRoll' = undefined
            /\ out' = printed \o playRoundLines(c.hmac)
            /\ pc' = "playRound"
            /\ UNCHANGED compChoice

\* a call of playRound(): a new closure, a new key, number and HMAC, and
\* the first question; printed is what the caller printed before the call
playRound(printed) ==
    \E c \in Commitments(6) :
            /\ key' = Some(c.key)
            /\ hmac' = Some(c.hmac)
            /\ disclosed' = Some(c.hmac)
            /\ compRandom' = Some(c.value)
            /\ compRoll' = undefined
            /\ userCompRandom' = undefined
            /\ userRoll' = undefined
            /\ out' = printed \o playRoundLines(c.hmac)
            /\ pc' = "playRound"
            /\ UNCHANGED compChoice

\* game.startGame(process.argv[2])
StartGame ==
    /\ pc = "start"
    /\ \E arg \in Arguments :
        /\ input' = Read("start", arg)
        /\ IF arg = undefined
           THEN \* input.split throws a TypeError nothing catches
                /\ out' = <<TextLine("TypeError")>>
                /\ pc' = "crashed"
                /\ UNCHANGED <<game, secrets, closure>>
           ELSE IF ~validateDiceInput(arg[1])
           THEN /\ out' = <<TextLine("invalidDiceInput")>>
                /\ pc' = "closed"
                /\ UNCHANGED <<game, secrets, closure>>
           ELSE IF ~(\A i \in 1..Len(PresetDice) : DiceValid(PresetDice[i]))
           THEN \* the catch branch: prints and returns, rl left open
                /\ out' = <<TextLine("diceConfigurationError")>>
                /\ pc' = "idle"
                /\ UNCHANGED <<game, secrets, closure>>
           ELSE \E c \in Commitments(2) :
                    /\ diceSet' = PresetDice
                    /\ key' = Some(c.key)
                    /\ compChoice' = Some(c.value)
                    /\ hmac' = Some(c.hmac)
                    /\ disclosed' = Some(c.hmac)
                    /\ out' = <<TextLine("firstMove"), HmacLine(c.hmac, 1)>>
                              \o promptUserLines
                    /\ pc' = "promptUser"
                    /\ UNCHANGED <<userDice, compDice, closure>>

\* resolveFirstMove in which a wrong guess lets the computer take the
\* [1,1,6,6,8,8] die, as the message it prints says
resolveFirstMoveTakingDice(userGuess) ==
    /\ out' = <<RevealLine(compChoice[1], key[1])>>
              \o (IF userGuess # compChoice[1]
                  THEN <<TextLine("iMakeTheFirstMove")>>
                  ELSE <<>>)
              \o chooseDiceLines(IF userGuess # compChoice[1]
                                 THEN spliceRest(diceSet, 1)
                                 ELSE diceSet)
    /\ pc' = "chooseDice"
    /\ diceSet' = (IF userGuess # compChoice[1]
                   THEN spliceRest(diceSet, 1)
                   ELSE diceSet)
    /\ compDice' = (IF userGuess # compChoice[1] THEN diceSet[2] ELSE compDice)
    /\ UNCHANGED <<userDice, secrets, closure>>

\* resolveFirstMove(userGuess), which ends in chooseDice()
resolveFirstMove(userGuess) ==
    /\ out' = <<RevealLine(compChoice[1], key[1])>>
              \o (IF userGuess # compChoice[1]
                  THEN <<TextLine("iMakeTheFirstMove")>>
                  ELSE <<>>)
              \o chooseDiceLines(diceSet)
    /\ pc' = "chooseDice"
    /\ UNCHANGED <<game, secrets, closure>>

\* the callback of promptUser's question
PromptUserAnswer ==
    /\ pc = "promptUser"
    /\ \E answer \in Answers :
        /\ input' = Read("promptUser", Some(answer))
        /\ IF IsExit(answer)
           THEN Exit
           ELSE IF answer = <<"?">>
           THEN \* displayHelp, which ends in promptUser()
                /\ out' = <<TextLine("help"), TextLine("probabilityTable")>>
                          \o promptUserLines
                /\ pc' = "promptUser"
                /\ UNCHANGED <<game, secrets, closure>>
           ELSE IF answer = <<"0">> \/ answer = <<"1">>
           THEN resolveFirstMove(parsedInt[answer][1])
           ELSE /\ out' = <<TextLine("invalid")>> \o promptUserLines
                /\ pc' = "promptUser"
                /\ UNCHANGED <<game, secrets, closure>>

\* the callback of chooseDice's question
ChooseDiceAnswer ==
    /\ pc = "chooseDice"
    /\ \E answer \in Answers :
        /\ input' = Read("chooseDice", Some(answer))
        /\ IF IsExit(answer)
           THEN Exit
           ELSE IF isValidDiceChoice(answer, diceSet)
           THEN LET i == parsedInt[answer][1]
                IN  /\ userDice' = userDiceOf(diceSet, i)
                    /\ diceSet' = spliceRest(diceSet, i)
                    /\ compDice' = compDiceOf(diceSet, i)
                    /\ playRound(<<ChosenLine(userDiceOf(diceSet, i))>>)
           ELSE /\ out' = <<TextLine("invalid")>> \o chooseDiceLines(diceSet)
                /\ pc' = "chooseDice"
                /\ UNCHANGED <<game, secrets, closure>>

\* the callback of playRound's first question (the computer's roll)
PlayRoundAnswer ==
    /\ pc = "playRound"
    /\ \E answer \in Answers :
        /\ input' = Read("playRound", Some(answer))
        /\ IF IsExit(answer)
           THEN Exit
           ELSE LET userRandom == parsedIntegerInput[answer]
                IN  IF userRandom = null
                    THEN /\ playRound(invalidInputLines)
                         /\ UNCHANGED game
                    ELSE \E r \in Rolls(compDice), c \in Commitments(6) :
                             /\ compRoll' = Some(r)
                             /\ key' = Some(c.key)
                             /\ userCompRandom' = Some(c.value)
                             /\ hmac' = Some(c.hmac)
                             /\ disclosed' = Some(c.hmac)
                             /\ out' = <<RevealLine(compRandom[1], key[1]),
                                         FairLine(compRandom[1], userRandom[1],
                                             fairResult(compRandom[1],
                                                        userRandom[1])),
                                         RollLine("computer", r),
                                         TextLine("yourTurn"),
                                         HmacLine(c.hmac, 5),
                                         PromptLine("playRoundUser", {})>>
                             /\ pc' = "playRoundUser"
                             /\ UNCHANGED <<game, compChoice, compRandom,
                                            userRoll>>

\* the callback of playRound's second question (the user's roll)
PlayRoundUserAnswer ==
    /\ pc = "playRoundUser"
    /\ \E userAnswer \in Answers :
        /\ input' = Read("playRoundUser", Some(userAnswer))
        /\ IF IsExit(userAnswer)
           THEN Exit
           ELSE LET userCompMod == parsedIntegerInput[userAnswer]
                IN  IF userCompMod = null
                    THEN /\ playRound(invalidInputLines)
                         /\ UNCHANGED game
                    ELSE \E r \in Rolls(userDice) :
                             /\ userRoll' = Some(r)
                             /\ out' = <<RevealLine(userCompRandom[1], key[1]),
                                         FairLine(userCompRandom[1],
                                             userCompMod[1],
                                             fairResult(userCompRandom[1],
                                                        userCompMod[1])),
                                         RollLine("user", r),
                                         OutcomeLine(winner(r, compRoll[1]))>>
                             /\ pc' = "closed"
                             /\ UNCHANGED <<game, secrets, compRandom,
                                            compRoll, userCompRandom>>

Next ==
    \/ StartGame
    \/ PromptUserAnswer
    \/ ChooseDiceAnswer
    \/ PlayRoundAnswer
    \/ PlayRoundUserAnswer

Spec == Init /\ [][Next]_vars

\* the program with its start guaranteed: game.startGame runs as soon as the
\* script is loaded; every later step waits for a line from the user
LiveSpec == Spec /\ WF_vars(StartGame)

\* ---------------------------------------------------------------- claims

\* the prompts, and those that wait for the user's part of a fairness round
Prompts == {"promptUser", "chooseDice", "playRound", "playRoundUser"}
FairPrompts == {"promptUser", "playRound", "playRoundUser"}

HasLine(o, t) == \E i \in 1..Len(o) : o[i].type = t

\* the HMAC on screen just before line i of o is printed, d being the one
\* on screen before o
TagBefore(o, i, d) ==
    IF \E j \in 1..(i - 1) : o[j].type = "hmac"
    THEN Some(o[CHOOSE j \in 1..(i - 1) :
                    /\ o[j].type = "hmac"
                    /\ \A m \in (j + 1)..(i - 1) : o[m].type # "hmac"].hmac)
    ELSE d

\* a step that reads the line at a prompt of the set ps
ReadsAt(ps) == pc \in ps /\ input'.at = pc

\* the line read by the step is one a number prompt rejects
Rejected == ~IsExit(input'.line[1]) /\ parseIntegerInput(input'.line[1]) = null

\* C1: in the human sub-round a rejected input re-prompts the same
\* sub-round: the computer's roll is unchanged and the session does not go
\* back to the computer sub-round.  The code calls playRound() again.
C1_HumanRejectKeepsCompRoll ==
    [][(ReadsAt({"playRoundUser"}) /\ Rejected)
        => (pc' = "playRoundUser" /\ compRoll' = compRoll)]_vars

\* C2: in the computer sub-round a rejected input retries with no state
\* change: the commitment waiting after the re-prompt is the one whose tag
\* was disclosed before.  The code generates a new one.
C2_CompRejectKeepsCommitment ==
    [][(ReadsAt({"playRound"}) /\ Rejected)
        => (/\ pc' = "playRound"
            /\ key' = key
            /\ compRandom' = compRandom
            /\ hmac' = hmac
            /\ disclosed' = disclosed)]_vars

\* C3: at every reveal, the MAC recomputed from the revealed key and the
\* decimal text of the revealed value is the tag most recently disclosed.
C3_RevealMatchesTag ==
    [][\A i \in 1..Len(out') :
          out'[i].type = "reveal"
          => Some(generateHMAC(out'[i].key, toString(out'[i].value)))
             = TagBefore(out', i, disclosed)]_vars

\* a game played to its end: both numbers revealed, the last one at the
\* human sub-round
C3_Witness ==
    /\ pc = "closed"
    /\ input.at = "playRoundUser"
    /\ HasLine(out, "reveal")
    /\ HasLine(out, "outcome")

\* C4: in every fairness round the tag is on screen before the user's input
\* is read; value and key are printed only by the step that reads an
\* accepted input of that round, which then no longer waits.
C4_CommitBeforeInputRevealAfter ==
    [][/\ pc' \in FairPrompts
          => /\ disclosed' = Some(generateHMAC(key'[1],
                   toString(PendingValue(pc', compChoice', compRandom',
                                         userCompRandom')[1])))
             /\ \A i \in 1..Len(out') :
                   out'[i].type = "reveal"
                   => \E j \in (i + 1)..Len(out') : out'[j].type = "hmac"
             /\ \A i \in 1..Len(out') :
                   out'[i].type = "hmac"
                   => \E j \in (i + 1)..Len(out') : out'[j].type = "prompt"
       /\ \A i \in 1..Len(out') :
             out'[i].type = "reveal"
             => /\ ReadsAt(FairPrompts)
                /\ IF pc = "promptUser"
                   THEN input'.line[1] \in {<<"0">>, <<"1">>}
                   ELSE parseIntegerInput(input'.line[1]) \in
                            {Some(n) : n \in 0..5}
                /\ out'[i].value = PendingValue(pc, compChoice, compRandom,
                                                userCompRandom)[1]
                /\ out'[i].key = key[1]
                /\ \A j \in 1..(i - 1) : out'[j].type # "reveal"]_vars

\* the computer sub-round's number has been revealed and the human
\* sub-round waits with its own tag on screen
C4_Witness ==
    /\ pc = "playRoundUser"
    /\ HasLine(out, "reveal")
    /\ disclosed = hmac

\* C5: no new commitment is produced while one whose tag was disclosed is
\* still unrevealed (in a session that is not cancelled), and none is
\* revealed twice.  A rejected input at a number prompt breaks the first.
C5_OneCommitmentAtATime ==
    [][/\ \A i \in 1..Len(out') :
             out'[i].type = "hmac"
             => \/ pc \notin FairPrompts
                \/ \E j \in 1..(i - 1) : out'[j].type = "reveal"
       /\ \A i \in 1..Len(out') :
             out'[i].type = "reveal"
             => /\ pc \in FairPrompts
                /\ \A j \in 1..(i - 1) : out'[j].type # "reveal"]_vars

\* C6: for every accepted index i the user holds the die that was at
\* position i, the computer holds the first die left in pool order, and
\* the two never hold the same die.
C6_DeterministicAssignment ==
    [][(ReadsAt({"chooseDice"})
        /\ ~IsExit(input'.line[1])
        /\ isValidDiceChoice(input'.line[1], diceSet))
        => LET i == parseInt(input'.line[1])[1]
           IN  /\ diceSet = PresetDice
               /\ i \in {0, 1, 2}
               /\ userDice' = diceSet[i + 1]
               /\ compDice' = IF i = 0 THEN <<1, 1, 6, 6, 8, 8>>
                                       ELSE <<2, 2, 4, 4, 9, 9>>
               /\ compDice' = (IF i = 0 THEN diceSet[2] ELSE diceSet[1])
               /\ userDice' # compDice']_vars

\* the user took index 0 and the computer got the next die
C6_Witness ==
    /\ userDice = <<2, 2, 4, 4, 9, 9>>
    /\ compDice = <<1, 1, 6, 6, 8, 8>>
    /\ input = Read("chooseDice", Some(<<"0">>))

\* C7: once both parties hold a die, the pool's remaining count is 1: both
\* assigned dice have left the pool.  The code leaves the computer's die in.
C7_PoolHoldsOneDie ==
    (userDice # <<>> /\ compDice # <<>>)
    => /\ Len(diceSet) = 1
       /\ userDice \notin Range(diceSet)
       /\ compDice \notin Range(diceSet)

\* an integer written out: an optional sign and digits, nothing else
IsIntegerText(t) ==
    LET u == IF t # <<>> /\ Head(t) \in {"+", "-"} THEN Tail(t) ELSE t
    IN  u # <<>> /\ \A i \in 1..Len(u) : IsDecDigit(u[i])

\* how many of the comma-separated parts of s are integers
IntegerCount(s) ==
    Cardinality({i \in 1..Len(split(s, ",")) :
                    IsIntegerText(trim(split(s, ",")[i]))})

\* C8: a start-up input that holds fewer than 3 integer values ends the
\* session before the first move: no pool, no commitment, no prompt.
\* parseInt reads "1x" as 1, so "1,1,1x" starts a game.
C8_FewerThanThreeIntegersAborts ==
    (input.at = "start" /\ input.line # undefined
     /\ IntegerCount(input.line[1]) < 3)
    => /\ pc = "closed"
       /\ diceSet = <<>>
       /\ key = undefined
       /\ hmac = undefined
       /\ disclosed = undefined
       /\ out = <<TextLine("invalidDiceInput")>>

\* C9: at each of the four prompts X or x ends the session at once: no
\* reveal, roll, outcome, prompt or commitment follows, and nothing is
\* read after the session is closed.
C9_ExitIsTerminal ==
    [][/\ pc # "closed"
       /\ (ReadsAt(Prompts) /\ input'.line[1] \in {<<"X">>, <<"x">>})
          => /\ pc' = "closed"
             /\ \A i \in 1..Len(out') :
                   out'[i].type \notin
                       {"reveal", "roll", "outcome", "prompt", "hmac", "fair"}
             /\ UNCHANGED <<game, secrets, closure>>]_vars

\* the session was left with x at the human sub-round, the computer's roll
\* made and the user's not
C9_Witness ==
    /\ pc = "closed"
    /\ input = Read("playRoundUser", Some(<<"x">>))
    /\ compRoll # undefined
    /\ userRoll = undefined

\* C10: ? changes nothing at any prompt: phase and sub-round, pool, dice,
\* pending commitment and rolls stay.  At the number prompts the code takes
\* ? for a rejected number and calls playRound() again.
C10_HelpChangesNothing ==
    [][(ReadsAt(Prompts) /\ input'.line = Some(<<"?">>))
        => (pc' = pc /\ UNCHANGED <<game, secrets, closure>>)]_vars

\* what the user and the computer hold after the user takes index i of the
\* preset pool
AssignedFor(i) ==
    [user |-> PresetDice[i + 1],
     comp |-> IF i = 0 THEN PresetDice[2] ELSE PresetDice[1]]

\* C11: whether the guess matches the committed value changes nothing
\* later: after either guess, with either committed value, dice selection
\* starts with the three preset dice in order and nobody holding a die, the
\* user chooses first, and the dice assigned and the next phase depend on
\* the user's index alone.
C11_FirstMoveIsCosmetic ==
    [][/\ (ReadsAt({"promptUser"})
           /\ input'.line[1] \in {<<"0">>, <<"1">>})
          => /\ pc' = "chooseDice"
             /\ diceSet' = PresetDice
             /\ userDice' = <<>>
             /\ compDice' = <<>>
             /\ HasLine(out', "options")
             /\ \A i \in 1..Len(out') :
                   out'[i].type = "options" => out'[i].dice = PresetDice
             /\ out'[Len(out')].type = "prompt"
             /\ out'[Len(out')].at = "chooseDice"
       /\ (ReadsAt({"chooseDice"})
           /\ ~IsExit(input'.line[1])
           /\ parseInt(input'.line[1]) \in {Some(0), Some(1), Some(2)})
          => /\ userDice' = AssignedFor(parseInt(input'.line[1])[1]).user
             /\ compDice' = AssignedFor(parseInt(input'.line[1])[1]).comp
             /\ pc' = "playRound"]_vars

\* a wrong guess (1 against a committed 0) has been resolved and dice
\* selection waits
C11_Witness ==
    /\ pc = "chooseDice"
    /\ input = Read("promptUser", Some(<<"1">>))
    /\ compChoice = Some(0)
    /\ HasLine(out, "iMakeTheFirstMove")

\* the outcome lines among the lines printed by the last step
OutcomeLines == {i \in 1..Len(out) : out[i].type = "outcome"}

\* C12: an outcome is declared only when both roll values exist; then
\* exactly one outcome is declared, "user" exactly when the user's roll is
\* strictly greater than the computer's roll, "computer" in every other
\* case; for any two faces of the preset dice, equal ones included, the
\* comparison names the user exactly when the first is strictly greater.
C12_StrictlyGreaterWins ==
    /\ \A u, c \in UNION {Range(d) : d \in Range(PresetDice)} :
          /\ winner(u, c) = "user" <=> u > c
          /\ winner(u, c) = "computer" <=> u <= c
    /\ OutcomeLines # {}
       => /\ userRoll # undefined
          /\ compRoll # undefined
          /\ Cardinality(OutcomeLines) = 1
          /\ \A i \in OutcomeLines :
                /\ out[i].winner \in {"user", "computer"}
                /\ out[i].winner = "user" <=> userRoll[1] > compRoll[1]
                /\ out[i].winner = "computer" <=> ~(userRoll[1] > compRoll[1])

\* the user rolled 9 against the computer's 6 and is declared the winner
C12_Witness ==
    /\ userRoll = Some(9)
    /\ compRoll = Some(6)
    /\ \E i \in OutcomeLines : out[i].winner = "user"

\* C13: whenever the computer's roll value exists it is a face of the die
\* assigned to the computer, and whenever the user's roll value exists it
\* is a face of the die assigned to the user; the roll lines printed show
\* those values.
C13_RollIsFaceOfAssignedDie ==
    /\ compRoll # undefined => compRoll[1] \in Range(compDice)
    /\ userRoll # undefined => userRoll[1] \in Range(userDice)
    /\ \A i \in 1..Len(out) :
          out[i].type = "roll"
          => IF out[i].who = "computer"
             THEN out[i].value \in Range(compDice) /\ compRoll = Some(out[i].value)
             ELSE out[i].value \in Range(userDice) /\ userRoll = Some(out[i].value)

\* both parties have rolled: the computer a 4 from [2,2,4,4,9,9], the user
\* an 8 from [1,1,6,6,8,8]
C13_Witness ==
    /\ compDice = <<2, 2, 4, 4, 9, 9>>
    /\ userDice = <<1, 1, 6, 6, 8, 8>>
    /\ compRoll = Some(4)
    /\ userRoll = Some(8)

RECURSIVE Pow10(_)
Pow10(n) == IF n = 0 THEN 1 ELSE 10 * Pow10(n - 1)

\* the integer a decimal literal d denotes, digits * 10^(-scale), when it is
\* one
IntegerOfDecimal(d) ==
    IF d.scale <= 0
    THEN DigitsValue(d.digits, 10) * Pow10(-d.scale)
    ELSE DigitsValue(SubSeq(d.digits, 1, Len(d.digits) - d.scale), 10)

\* the integer an unsigned line denotes as a number, Number(s): a whole 0x
\* literal or a whole decimal literal with an integer value; None for any
\* other line
IntegerDenoted(s) ==
    IF IsHexLiteral(trim(s))
    THEN parseInt(trim(s))
    ELSE IF /\ trim(s) # <<>>
            /\ Head(trim(s)) \notin {"+", "-"}
            /\ IsWholeDecimal(ScanDecimal(trim(s)), trim(s))
            /\ IsIntegerDecimal(ScanDecimal(trim(s)))
         THEN Some(IntegerOfDecimal(ScanDecimal(trim(s))))
         ELSE None

\* the step reads a line at a number prompt and accepts it as a contribution
AcceptsContribution ==
    /\ ReadsAt({"playRound", "playRoundUser"})
    /\ ~IsExit(input'.line[1])
    /\ parsedIntegerInput[input'.line[1]] # null

\* the value committed for the sub-round that waits at the prompt
CommittedValue == IF pc = "playRound" THEN compRandom[1] ELSE userCompRandom[1]

\* C14: in both sub-rounds a line is accepted as the contribution only if
\* it denotes an integer in 0..5; the fair result disclosed is (committed
\* value + that integer) mod 6, is in 0..5, and is the same with the
\* addends swapped.
C14_AcceptsOnlyZeroToFive ==
    [][AcceptsContribution
       => /\ IntegerDenoted(input'.line[1]) # None
          /\ IntegerDenoted(input'.line[1])[1] \in 0..5
          /\ \E i \in 1..Len(out') :
                /\ out'[i].type = "fair"
                /\ out'[i].a = CommittedValue
                /\ out'[i].b = IntegerDenoted(input'.line[1])[1]
                /\ out'[i].result = (out'[i].a + out'[i].b) % 6
                /\ out'[i].result = (out'[i].b + out'[i].a) % 6
                /\ out'[i].result \in 0..5]_vars

\* the line read is an integer written out whose value is no index of the
\* pool
IndexOutsidePool ==
    /\ IsIntegerText(input'.line[1])
    /\ parseInt(input'.line[1])[1] \notin 0..(Len(diceSet) - 1)

\* the line read is an integer written out whose value is an index of the
\* pool
IndexInsidePool ==
    /\ IsIntegerText(input'.line[1])
    /\ parseInt(input'.line[1])[1] \in 0..(Len(diceSet) - 1)

\* C15: in dice selection an index outside the pool leaves the pool, the
\* assigned dice and the phase unchanged and re-prompts; an index inside
\* the pool takes exactly one die out of it (3 dice to 2), the die the user
\* then holds, and dice selection is never entered again.
C15_TakeByIndexOnce ==
    [][/\ (ReadsAt({"chooseDice"}) /\ IndexOutsidePool)
          => /\ UNCHANGED game
             /\ pc' = "chooseDice"
             /\ out'[Len(out')] = PromptLine("chooseDice", {"index", "X", "?"})
       /\ (ReadsAt({"chooseDice"}) /\ IndexInsidePool)
          => /\ Len(diceSet) = 3
             /\ Len(diceSet') = 2
             /\ userDice' = diceSet[parseInt(input'.line[1])[1] + 1]
             /\ userDice' \notin Range(diceSet')
             /\ Range(diceSet') = Range(diceSet) \ {userDice'}
             /\ pc' = "playRound"
       /\ pc \notin {"start", "promptUser", "chooseDice"}
          => pc' # "chooseDice"
       /\ pc' = "chooseDice" => Len(diceSet') = 3 /\ userDice' = <<>>]_vars

\* index 5 has been refused and dice selection waits again with three dice
C15_Witness ==
    /\ pc = "chooseDice"
    /\ input = Read("chooseDice", Some(<<"5">>))
    /\ Len(diceSet) = 3
    /\ userDice = <<>>

\* the lines a number prompt accepts and the contribution each gives
Contributions == {a \in Answers : ~IsExit(a) /\ parsedIntegerInput[a] # null}

\* the step discloses the combined value v and rolls the face f
DisclosesAndRolls(v, f) ==
    /\ \E i \in 1..Len(out') : out'[i].type = "fair" /\ out'[i].result = v
    /\ \E i \in 1..Len(out') : out'[i].type = "roll" /\ out'[i].value = f

\* C16: the combined value of a sub-round does not determine the face
\* rolled in it.  Every value 0..5 can be committed for either sub-round,
\* and at either number prompt, for every accepted contribution, the step
\* that discloses the combined value can roll every face of the rolling
\* party's die; so every pair of a combined value and a face is reached.
C16_CombinedValueIsDecorative ==
    /\ pc = "chooseDice"
       => \A v \in 0..5 :
             ENABLED (ChooseDiceAnswer /\ pc' = "playRound"
                      /\ compRandom' = Some(v))
    /\ pc = "playRound"
       => /\ \A v \in 0..5 :
                ENABLED (PlayRoundAnswer /\ pc' = "playRoundUser"
                         /\ userCompRandom' = Some(v))
          /\ \A a \in Contributions : \A f \in Range(compDice) :
                ENABLED (/\ PlayRoundAnswer
                         /\ input'.line = Some(a)
                         /\ compRoll' = Some(f)
                         /\ DisclosesAndRolls(
                                (compRandom[1] + parsedIntegerInput[a][1]) % 6,
                                f))
    /\ pc = "playRoundUser"
       => \A a \in Contributions : \A f \in Range(userDice) :
             ENABLED (/\ PlayRoundUserAnswer
                      /\ input'.line = Some(a)
                      /\ userRoll' = Some(f)
                      /\ DisclosesAndRolls(
                             (userCompRandom[1] + parsedIntegerInput[a][1]) % 6,
                             f))

\* the computer rolled a 1, and the user's sub-round disclosed the combined
\* value 0 and rolled a 9, the last face of the user's die
C16_Witness ==
    /\ pc = "closed"
    /\ compRoll = Some(1)
    /\ userRoll = Some(9)
    /\ \E i \in 1..Len(out) : out[i].type = "fair" /\ out[i].result = 0

\* line i of the last step's output is the roll line of party who
IsRollLine(i, who) == out[i].type = "roll" /\ out[i].who = who

\* C17: events occur in phase order.  No roll value exists before both
\* parties hold a die; while the computer sub-round of an exchange waits,
\* no roll value of that exchange exists; the computer's roll is printed
\* before the commitment of the human sub-round is disclosed; the user's
\* roll exists only when the computer's roll of the same exchange does, and
\* is printed after the human sub-round's reveal; an outcome is printed
\* only after the user's roll, with both roll values present.
C17_PhaseOrder ==
    /\ (compRoll # undefined \/ userRoll # undefined)
       => userDice # <<>> /\ compDice # <<>>
    /\ pc \in {"start", "promptUser", "chooseDice", "playRound"}
       => /\ compRoll = undefined
          /\ userRoll = undefined
          /\ userCompRandom = undefined
          /\ \A i \in 1..Len(out) : out[i].type \notin {"roll", "outcome"}
    /\ userCompRandom # undefined => compRoll # undefined
    /\ userRoll # undefined
       => compRoll # undefined /\ userCompRandom # undefined
    /\ \A i \in 1..Len(out) :
          /\ (pc = "playRoundUser" /\ out[i].type = "hmac")
             => \E j \in 1..(i - 1) : IsRollLine(j, "computer")
          /\ IsRollLine(i, "user")
             => /\ compRoll # undefined
                /\ \E j \in 1..(i - 1) : out[j].type = "reveal"
                /\ \A j \in 1..Len(out) : ~IsRollLine(j, "computer")
          /\ out[i].type = "outcome"
             => /\ \E j \in 1..(i - 1) : IsRollLine(j, "user")
                /\ compRoll # undefined
                /\ userRoll # undefined

\* a whole exchange has run: both rolls exist and the outcome is printed
C17_Witness ==
    /\ pc = "closed"
    /\ compRoll # undefined
    /\ userRoll # undefined
    /\ HasLine(out, "outcome")

\* C18: equal roll values are unreachable.  The three preset dice have
\* pairwise disjoint faces, the two parties hold different preset dice once
\* both hold one, so whenever both roll values exist they differ, and an
\* outcome for the computer is declared only on a strictly smaller user
\* roll.
C18_NoTie ==
    /\ \A i, j \in 1..Len(PresetDice) :
          i # j => Range(PresetDice[i]) \cap Range(PresetDice[j]) = {}
    /\ (userDice # <<>> /\ compDice # <<>>)
       => /\ userDice \in Range(PresetDice)
          /\ compDice \in Range(PresetDice)
          /\ userDice # compDice
          /\ Range(userDice) \cap Range(compDice) = {}
    /\ (userRoll # undefined /\ compRoll # undefined)
       => userRoll[1] # compRoll[1]
    /\ \A i \in 1..Len(out) :
          out[i].type = "outcome"
          => /\ userRoll[1] # compRoll[1]
             /\ out[i].winner = "computer" => userRoll[1] < compRoll[1]

\* the computer is declared the winner with 9 against the user's 7
C18_Witness ==
    /\ userRoll = Some(7)
    /\ compRoll = Some(9)
    /\ \E i \in 1..Len(out) :
          out[i].type = "outcome" /\ out[i].winner = "computer"

Terminated == {"closed", "crashed"}

\* the last step read, at prompt p, a line that the prompt accepts or the
\* exit signal
AnsweredAt(p) ==
    /\ input.at = p
    /\ input.line # undefined
    /\ \/ IsExit(input.line[1])
       \/ CASE p = "promptUser" -> input.line[1] \in {<<"0">>, <<"1">>}
            [] p = "chooseDice" -> pc \in {"playRound", "closed"}
            [] OTHER -> parsedIntegerInput[input.line[1]] # null

\* the user's part: at a prompt that keeps waiting, an accepted line or the
\* exit signal is supplied again and again
UserAnswers(p) == ([]<>(pc = p)) => ([]<>AnsweredAt(p))

PromptLines == {i \in 1..Len(out) : out[i].type = "prompt"}

\* one question is open while the session waits and none when it is over,
\* and an outcome is printed only by the step that ends the session
OneQuestionOpen ==
    /\ pc \in Prompts
       => /\ PromptLines = {Len(out)}
          /\ out[Len(out)].at = pc
    /\ pc \in Terminated => PromptLines = {}
    /\ OutcomeLines # {} => pc = "closed" /\ Cardinality(OutcomeLines) = 1

\* C19: a session in which the user supplies, at each prompt that waits, an
\* accepted line or the exit signal, terminates; while it waits exactly one
\* question is open; an outcome is printed at most once, by the step that
\* ends the session; and after termination no step happens, so no prompt,
\* commitment, roll or outcome follows.
C19_Terminates ==
    /\ (UserAnswers("promptUser") /\ UserAnswers("chooseDice")
        /\ UserAnswers("playRound") /\ UserAnswers("playRoundUser"))
       => <>(pc \in Terminated)
    /\ []OneQuestionOpen
    /\ [][pc \notin Terminated]_vars

\* the session is over with an outcome declared
C19_Witness ==
    /\ pc = "closed"
    /\ input.at = "playRoundUser"
    /\ OutcomeLines # {}
    /\ PromptLines = {}

====
